---------------------------- MODULE Spec2Model ----------------------------
(***************************************************************************)
(* Model of dashboard/dashboard.py: a Streamlit script that loads          *)
(* main_data.csv, derives four aggregate tables and four scalar metrics,   *)
(* and renders the section chosen in the sidebar.  One run of the script   *)
(* is one pass of pc from "load_data" to "done" (or "stopped" when an      *)
(* exception escapes); a widget interaction reruns the script from the top.*)
(*                                                                         *)
(* Identifiers (order_id, customer_id, product_category_name_english) are  *)
(* numbered in their sort order, so that groupby's sorted keys are the     *)
(* ascending numbers.  Timestamps are integers counting UnitsPerDay units  *)
(* per day; a month is DaysPerMonth days.  Prices are whole amounts.       *)
(* Floats that result from a division are exact fractions [num, den].      *)
(***************************************************************************)
EXTENDS Integers, Sequences, FiniteSets, TLC

\* ---------------------------------------------------------------- bounds
MaxRows == 2
MaxPrice == 2
UnitsPerDay == 2
DaysPerMonth == 2

\* ------------------------------------------------------ values and helpers
\* pandas' missing timestamp
NaT == -1
\* float('nan') and float('inf') as results of a float division
NaN == [nan |-> TRUE]
Inf == [inf |-> TRUE]
IsNumber(x) == DOMAIN x = {"num", "den"}

Min2(a, b) == IF a <= b THEN a ELSE b

RECURSIVE SumSeq(_)
SumSeq(s) == IF s = <<>> THEN 0 ELSE Head(s) + SumSeq(Tail(s))

SetMax(S) == CHOOSE m \in S : \A x \in S : x <= m
SetMin(S) == CHOOSE m \in S : \A x \in S : m <= x

\* one column of a table
Column(df, Get(_)) == [i \in 1..Len(df) |-> Get(df[i])]

\* Series.nunique(): number of distinct values in a column
CountRows(x) == Len(x)
nunique(x) == Cardinality({x[i] : i \in 1..Len(x)})

\* all orderings of a finite set
Perms(S) ==
    {p \in [1..Cardinality(S) -> S] : \A i, j \in DOMAIN p : i # j => p[i] # p[j]}

\* DataFrame.head(n)
head(s, n) == SubSeq(s, 1, Min2(n, Len(s)))

\* Timedelta.days: whole days, rounded toward minus infinity
CeilDays(delta) == -((-delta) \div UnitsPerDay)
days(delta) == delta \div UnitsPerDay

\* numpy float division: x/0 is nan for x = 0 and inf otherwise, never raises
NpDivide(n, d) ==
    IF d = 0 THEN (IF n = 0 THEN NaN ELSE Inf) ELSE [num |-> n, den |-> d]

\* calendar: the month a timestamp falls in, and the date of a month's last day
UnitsPerMonth == UnitsPerDay * DaysPerMonth
MonthOf(t) == t \div UnitsPerMonth
MonthEnd(m) == (m + 1) * DaysPerMonth - 1
MonthOfDate(d) == d \div DaysPerMonth

\* ------------------------------------------------------- the input domain
OrderIds == {1, 2}
CustomerIds == {1, 2}
Categories == {1, 2, 3}
Prices == 1..MaxPrice

\* purchase timestamps: start of month 0, day 1 of month 0 (not on a day
\* boundary), and inside month 2 (month 1 is then skipped)
PurchaseTimes == {0, UnitsPerDay + 1, 2 * UnitsPerMonth + 1}

Row(o, c, cat, p, purchase, delivered, estimated) ==
    [order_id |-> o, customer_id |-> c, product_category_name_english |-> cat,
     price |-> p, order_purchase_timestamp |-> purchase,
     order_delivered_customer_date |-> delivered,
     order_estimated_delivery_date |-> estimated]

\* rows that vary order, customer and purchase time
PurchaseRows ==
    {Row(o, c, 1, 1, t, NaT, t + UnitsPerDay) :
        o \in OrderIds, c \in CustomerIds, t \in PurchaseTimes}

\* rows that vary order and the two delivery timestamps: purchased at 1,
\* promised after 1 or 3 days, delivered never, within 1 day or within 3 days
DeliveryRows ==
    {Row(o, 1, 1, 1, 1, d, e) :
        o \in OrderIds,
        d \in {NaT, 2 * UnitsPerDay, 4 * UnitsPerDay},
        e \in {UnitsPerDay + 1, 3 * UnitsPerDay + 1}}

\* rows that vary category and price
CategoryRows ==
    {Row(1, 1, cat, p, 0, NaT, UnitsPerDay) : cat \in Categories, p \in Prices}

Tables(R) == UNION {[1..n -> R] : n \in 0..MaxRows}

\* main_data.csv: absent, present but not readable, present with no bytes at
\* all (not even a header), or a header line followed by zero or more data rows
CsvFiles ==
    {[status |-> st, rows |-> <<>>] : st \in {"missing", "unreadable", "empty"}}
    \cup {[status |-> "ok", rows |-> t] :
            t \in Tables(PurchaseRows) \cup Tables(DeliveryRows) \cup Tables(CategoryRows)}

\* ------------------------------------------------------------ aggregators
\* groupby(...) keys: the distinct values of a column, ascending
SortedKeys(S) ==
    CHOOSE p \in Perms(S) : \A i, j \in DOMAIN p : i < j => p[i] < p[j]

\* lines 53-56, one bin of the monthly Grouper: distinct orders and summed
\* price of the lines purchased in month m, labelled with the month's last day;
\* line 59: month_name is strftime of that label (month and year only)
MonthlyRow(df, m) ==
    LET lines == SelectSeq(df, LAMBDA r : MonthOf(r.order_purchase_timestamp) = m)
        label == MonthEnd(m)
    IN  [order_date  |-> label,
         order_count |-> nunique(Column(lines, LAMBDA r : r.order_id)),
         revenue     |-> SumSeq(Column(lines, LAMBDA r : r.price)),
         month_name  |-> MonthOfDate(label)]

\* lines 52-60: one row per month from the first to the last month that has
\* a line, months without lines included (freq='M' bins are contiguous)
prepare_monthly_data(df) ==
    IF df = <<>> THEN <<>>
    ELSE LET months == {MonthOf(df[i].order_purchase_timestamp) : i \in 1..Len(df)}
             first  == SetMin(months)
             last   == SetMax(months)
         IN  [k \in 1..(last - first + 1) |-> MonthlyRow(df, first + k - 1)]

\* df.groupby("product_category_name_english")["price"].sum()
CategoryLines(df, cat) ==
    SelectSeq(df, LAMBDA r : r.product_category_name_english = cat)
CategorySums(df) ==
    [cat \in {df[i].product_category_name_english : i \in 1..Len(df)} |->
        SumSeq(Column(CategoryLines(df, cat), LAMBDA r : r.price))]

\* sort_values(ascending=...) with the default kind='quicksort', which is not
\* stable: every ordering of the keys that is sorted by value is a possible
\* outcome, equal values in any order
SortIgnoringDirection(vals, ascending) ==
    {p \in Perms(DOMAIN vals) :
        \A i, j \in DOMAIN p : i < j => vals[p[i]] >= vals[p[j]]}
sort_values(vals, ascending) ==
    {p \in Perms(DOMAIN vals) :
        \A i, j \in DOMAIN p : i < j =>
            IF ascending THEN vals[p[i]] <= vals[p[j]] ELSE vals[p[i]] >= vals[p[j]]}

HeadRows == 10

\* .reset_index().head(10) of a sorted category/sum series
RankingTable(sums, order) ==
    head([i \in 1..Len(order) |->
            [product_category_name_english |-> order[i], price |-> sums[order[i]]]],
         HeadRows)

\* line 66 and line 67: the possible top and bottom tables
TopCategories(df) ==
    {RankingTable(CategorySums(df), p) : p \in sort_values(CategorySums(df), FALSE)}
BottomCategories(df) ==
    {RankingTable(CategorySums(df), p) : p \in sort_values(CategorySums(df), TRUE)}

\* lines 70-74: one statistics row per category
CategoryStatsRow(df, cat) ==
    LET prices == Column(CategoryLines(df, cat), LAMBDA r : r.price)
        values == {prices[i] : i \in 1..Len(prices)}
    IN  [product_category_name_english |-> cat,
         order_count |-> nunique(Column(CategoryLines(df, cat), LAMBDA r : r.order_id)),
         item_count  |-> Len(prices),
         min_price   |-> SetMin(values),
         avg_price   |-> NpDivide(SumSeq(prices), Len(prices)),
         max_price   |-> SetMax(values),
         total_sales |-> SumSeq(prices)]

\* line 75: the possible statistics tables, sorted by total_sales descending
CategoryStats(df) ==
    {[i \in 1..Len(p) |-> CategoryStatsRow(df, p[i])] :
        p \in sort_values(CategorySums(df), FALSE)}

\* line 91: the latest purchase timestamp of the whole table
EarliestPurchase(df) ==
    SetMin({df[i].order_purchase_timestamp : i \in 1..Len(df)})
recent_date(df) ==
    SetMax({df[i].order_purchase_timestamp : i \in 1..Len(df)})

\* lines 82-95: one row per customer
RfmRow(df, c) ==
    LET lines == SelectSeq(df, LAMBDA r : r.customer_id = c)
        last_purchase_date ==
            SetMax({lines[i].order_purchase_timestamp : i \in 1..Len(lines)})
    IN  [customer_id |-> c,
         frequency   |-> nunique(Column(lines, LAMBDA r : r.order_id)),
         monetary    |-> SumSeq(Column(lines, LAMBDA r : r.price)),
         recency     |-> days(recent_date(df) - last_purchase_date)]

prepare_rfm_data(df) ==
    LET customers == SortedKeys({df[i].customer_id : i \in 1..Len(df)})
    IN  [k \in 1..Len(customers) |-> RfmRow(df, customers[k])]

\* line 100: dropna(subset=['order_delivered_customer_date'])
KeepAll(df) == df
dropna(df) == SelectSeq(df, LAMBDA r : r.order_delivered_customer_date # NaT)

\* line 100: drop_duplicates(subset=['order_id']) keeps the first row of
\* each order
RECURSIVE DropSeen(_, _)
DropSeen(s, seen) ==
    IF s = <<>> THEN <<>>
    ELSE IF Head(s).order_id \in seen THEN DropSeen(Tail(s), seen)
         ELSE <<Head(s)>> \o DropSeen(Tail(s), seen \cup {Head(s).order_id})
drop_duplicates(s) == DropSeen(s, {})

\* lines 101-105: the three day-count columns of one delivery row
DeliveryRow(r) ==
    LET actual    == days(r.order_delivered_customer_date - r.order_purchase_timestamp)
        estimated == days(r.order_estimated_delivery_date - r.order_purchase_timestamp)
    IN  r @@ [actual_delivery_time    |-> actual,
              estimated_delivery_time |-> estimated,
              delivery_difference     |-> estimated - actual]

\* lines 99-107
prepare_delivery_data(df) ==
    LET kept == drop_duplicates(dropna(df))
    IN  [i \in 1..Len(kept) |-> DeliveryRow(kept[i])]

\* (delivery_data['delivery_difference'] >= 0).mean() * 100, lines 119 and 424;
\* the mean of an empty boolean series is nan
StrictlyEarly(r) == r.delivery_difference > 0
IsOnTime(r) == r.delivery_difference >= 0
OnTimeRate(delivery) ==
    NpDivide(100 * Len(SelectSeq(delivery, IsOnTime)), Len(delivery))

\* ------------------------------------------------------------------ state
VARIABLES
    csv,                    \* the file main_data.csv
    pc,                     \* the statement group the script run is at
    exception,              \* the exception that stopped the run, or "none"
    all_df,                 \* line 33
    monthly_data,           \* line 110
    top_categories,         \* line 111
    bottom_categories,      \* line 111
    category_stats,         \* line 111
    rfm_data,               \* line 112
    delivery_data,          \* line 113
    total_orders,           \* line 116
    total_revenue,          \* line 117
    avg_order_value,        \* line 118
    on_time_delivery_rate,  \* line 119
    options,                \* line 47, the section that was rendered
    date_range,             \* line 205
    filtered_monthly_data,  \* lines 214-219 and 250
    selected_categories,    \* line 307
    filtered_stats,         \* lines 313-316
    x_axis,                 \* line 398
    y_axis,                 \* line 399
    color,                  \* line 408
    size,                   \* line 409
    on_time_delivery        \* line 424

dataVars == <<all_df, monthly_data, top_categories, bottom_categories,
              category_stats, rfm_data, delivery_data>>
metricVars == <<total_orders, total_revenue, avg_order_value, on_time_delivery_rate>>
salesVars == <<date_range, filtered_monthly_data>>
categoryVars == <<selected_categories, filtered_stats>>
scatterVars == <<x_axis, y_axis, color, size>>
renderVars == <<options, salesVars, categoryVars, scatterVars, on_time_delivery>>
vars == <<csv, pc, exception, dataVars, metricVars, renderVars>>

\* a name the run has not assigned yet
Unset == [unset |-> TRUE]

\* the start of a script run: nothing assigned, nothing rendered
Fresh ==
    /\ pc = "load_data"
    /\ exception = "none"
    /\ all_df = <<>>
    /\ monthly_data = <<>>
    /\ top_categories = <<>>
    /\ bottom_categories = <<>>
    /\ category_stats = <<>>
    /\ rfm_data = <<>>
    /\ delivery_data = <<>>
    /\ total_orders = 0
    /\ total_revenue = 0
    /\ avg_order_value = Unset
    /\ on_time_delivery_rate = Unset
    /\ options = "none"
    /\ date_range = <<>>
    /\ filtered_monthly_data = <<>>
    /\ selected_categories = {}
    /\ filtered_stats = <<>>
    /\ x_axis = "none"
    /\ y_axis = "none"
    /\ color = "none"
    /\ size = "none"
    /\ on_time_delivery = Unset

Init ==
    /\ csv \in CsvFiles
    /\ Fresh

\* --------------------------------------------------- loading and preparing
\* pd.read_csv raises for a file that is absent (FileNotFoundError), cannot be
\* read (OSError) or holds no columns (EmptyDataError); a header with no data
\* rows parses to a table of zero rows
ReadCsvError(f) ==
    CASE f.status = "missing"    -> "FileNotFoundError"
      [] f.status = "unreadable" -> "OSError"
      [] f.status = "empty"      -> "EmptyDataError"
      [] OTHER                   -> "none"

\* lines 19-33: load_data.  Nothing catches what read_csv raises: the run
\* stops there and Streamlit shows the exception.
load_data ==
    /\ pc = "load_data"
    /\ IF ReadCsvError(csv) # "none"
       THEN /\ exception' = ReadCsvError(csv)
            /\ pc' = "stopped"
            /\ all_df' = all_df
       ELSE /\ all_df' = csv.rows
            /\ pc' = "prepare_monthly_data"
            /\ exception' = exception
    /\ UNCHANGED <<csv, monthly_data, top_categories, bottom_categories,
                   category_stats, rfm_data, delivery_data, metricVars, renderVars>>

\* line 110
PrepareMonthly ==
    /\ pc = "prepare_monthly_data"
    /\ monthly_data' = prepare_monthly_data(all_df)
    /\ pc' = "prepare_category_data"
    /\ UNCHANGED <<csv, exception, all_df, top_categories, bottom_categories,
                   category_stats, rfm_data, delivery_data, metricVars, renderVars>>

\* line 111
PrepareCategory ==
    /\ pc = "prepare_category_data"
    /\ top_categories' \in TopCategories(all_df)
    /\ bottom_categories' \in BottomCategories(all_df)
    /\ category_stats' \in CategoryStats(all_df)
    /\ pc' = "prepare_rfm_data"
    /\ UNCHANGED <<csv, exception, all_df, monthly_data, rfm_data, delivery_data,
                   metricVars, renderVars>>

\* line 112
PrepareRfm ==
    /\ pc = "prepare_rfm_data"
    /\ rfm_data' = prepare_rfm_data(all_df)
    /\ pc' = "prepare_delivery_data"
    /\ UNCHANGED <<csv, exception, all_df, monthly_data, top_categories,
                   bottom_categories, category_stats, delivery_data, metricVars,
                   renderVars>>

\* line 113
PrepareDelivery ==
    /\ pc = "prepare_delivery_data"
    /\ delivery_data' = prepare_delivery_data(all_df)
    /\ pc' = "metrics"
    /\ UNCHANGED <<csv, exception, all_df, monthly_data, top_categories,
                   bottom_categories, category_stats, rfm_data, metricVars, renderVars>>

\* line 118: total_revenue / total_orders.  With data rows the sum is a numpy
\* float and the division never raises.  With no data rows read_csv gives
\* object columns, whose sum() is the Python int 0, and nunique() is the Python
\* int 0: int / int with a zero divisor raises ZeroDivisionError.
DivisionRaises(df, orders) == df = <<>> /\ orders = 0

\* lines 116-119
Metrics ==
    /\ pc = "metrics"
    /\ total_orders' = nunique(Column(all_df, LAMBDA r : r.order_id))
    /\ total_revenue' = SumSeq(Column(all_df, LAMBDA r : r.price))
    /\ IF DivisionRaises(all_df, total_orders')
       THEN /\ exception' = "ZeroDivisionError"
            /\ pc' = "stopped"
            /\ UNCHANGED <<avg_order_value, on_time_delivery_rate>>
       ELSE /\ avg_order_value' = NpDivide(total_revenue', total_orders')
            /\ on_time_delivery_rate' = OnTimeRate(delivery_data)
            /\ pc' = "render"
            /\ exception' = exception
    /\ UNCHANGED <<csv, dataVars, renderVars>>

\* -------------------------------------------------------------- rendering
Sections == {"Overview", "Sales & Revenue Trends", "Product Category Analysis",
             "Customer Analysis", "Additional Insights"}
Dimensions == {"recency", "frequency", "monetary"}


\* lines 142-198: the four metrics, the top five categories
RenderOverview ==
    /\ pc = "render"
    /\ options' = "Overview"
    /\ pc' = "done"
    /\ UNCHANGED <<csv, exception, dataVars, metricVars, salesVars, categoryVars,
                   scatterVars, on_time_delivery>>

\* lines 205-210: what st.date_input can return: no date, a start date alone,
\* or a start and an end with start <= end, all inside [min_value, max_value]
DateRanges(monthly) ==
    LET dates == {monthly[i].order_date : i \in 1..Len(monthly)}
        picks == SetMin(dates)..SetMax(dates)
    IN  {<<>>} \cup {<<s>> : s \in picks}
        \cup {r \in {<<s, e>> : s \in picks, e \in picks} : r[1] <= r[2]}

\* lines 215-216: the inclusive window test on a row's order_date
BeforeEnd(d, start, end) == d >= start /\ d < end
InWindow(d, start, end) == d >= start /\ d <= end

\* lines 212-219
FilterMonthly(monthly, range) ==
    IF Len(range) = 2
    THEN SelectSeq(monthly, LAMBDA r : InWindow(r.order_date, range[1], range[2]))
    ELSE monthly

\* line 250: the avg_order_value column, a Series division (nan for 0/0)
WithAvgOrderValue(rows) ==
    [i \in 1..Len(rows) |->
        [order_date      |-> rows[i].order_date,
         order_count     |-> rows[i].order_count,
         revenue         |-> rows[i].revenue,
         month_name      |-> rows[i].month_name,
         avg_order_value |-> NpDivide(rows[i].revenue, rows[i].order_count)]]

\* lines 200-263.  With two dates filtered_monthly_data is a new table; otherwise
\* it is monthly_data itself, and line 250 adds the column to that table.
RenderSales(range) ==
    /\ pc = "render"
    /\ options' = "Sales & Revenue Trends"
    /\ date_range' = range
    /\ filtered_monthly_data' = WithAvgOrderValue(FilterMonthly(monthly_data, range))
    /\ monthly_data' = IF Len(range) = 2 THEN monthly_data
                       ELSE WithAvgOrderValue(monthly_data)
    /\ pc' = "done"
    /\ UNCHANGED <<csv, exception, all_df, top_categories, bottom_categories,
                   category_stats, rfm_data, delivery_data, metricVars, categoryVars,
                   scatterVars, on_time_delivery>>

\* n/d rounded to the nearest whole number, halves to the even neighbour
RoundHalfEven(n, d) ==
    LET q == n \div d
        r == n % d
    IN  IF 2 * r < d THEN q
        ELSE IF 2 * r > d THEN q + 1
        ELSE IF q % 2 = 0 THEN q ELSE q + 1

\* Series.round(2): a number of hundredths
round2(x) ==
    IF IsNumber(x) THEN [num |-> RoundHalfEven(100 * x.num, x.den), den |-> 100] ELSE x

\* lines 302-304
DisplayCategoryStats(stats) ==
    [i \in 1..Len(stats) |->
        [stats[i] EXCEPT !.avg_price = round2(@),
                         !.total_sales = round2(NpDivide(@, 1))]]

\* lines 313-316
IsinOnly(display, selected) ==
    SelectSeq(display, LAMBDA r : r.product_category_name_english \in selected)
SelectCategories(display, selected) ==
    IF selected # {}
    THEN SelectSeq(display, LAMBDA r : r.product_category_name_english \in selected)
    ELSE display

\* lines 265-318; the multiselect offers the categories of category_stats
RenderCategory(selected) ==
    /\ pc = "render"
    /\ selected \subseteq
         {category_stats[i].product_category_name_english : i \in 1..Len(category_stats)}
    /\ options' = "Product Category Analysis"
    /\ selected_categories' = selected
    /\ filtered_stats' = SelectCategories(DisplayCategoryStats(category_stats), selected)
    /\ pc' = "done"
    /\ UNCHANGED <<csv, exception, dataVars, metricVars, salesVars, scatterVars,
                   on_time_delivery>>

\* line 408 and line 409
ScatterColor(x, y) ==
    IF y # "monetary" /\ x # "monetary" THEN "monetary" ELSE "frequency"
ScatterSize(x, y) ==
    IF y # "frequency" /\ x # "frequency" THEN "frequency" ELSE "monetary"

\* lines 320-412
RenderCustomer(x, y) ==
    /\ pc = "render"
    /\ options' = "Customer Analysis"
    /\ x_axis' = x
    /\ y_axis' = y
    /\ color' = ScatterColor(x, y)
    /\ size' = ScatterSize(x, y)
    /\ pc' = "done"
    /\ UNCHANGED <<csv, exception, dataVars, metricVars, salesVars, categoryVars,
                   on_time_delivery>>

\* lines 414-523
RenderInsights ==
    /\ pc = "render"
    /\ options' = "Additional Insights"
    /\ on_time_delivery' = OnTimeRate(delivery_data)
    /\ pc' = "done"
    /\ UNCHANGED <<csv, exception, dataVars, metricVars, salesVars, categoryVars,
                   scatterVars>>

\* a widget interaction or a browser reload runs the script again from line 1;
\* st.cache_data hands every run its own copy of the cached tables
Rerun ==
    /\ pc \in {"done", "stopped"}
    /\ pc' = "load_data"
    /\ exception' = "none"
    /\ all_df' = <<>>
    /\ monthly_data' = <<>>
    /\ top_categories' = <<>>
    /\ bottom_categories' = <<>>
    /\ category_stats' = <<>>
    /\ rfm_data' = <<>>
    /\ delivery_data' = <<>>
    /\ total_orders' = 0
    /\ total_revenue' = 0
    /\ avg_order_value' = Unset
    /\ on_time_delivery_rate' = Unset
    /\ options' = "none"
    /\ date_range' = <<>>
    /\ filtered_monthly_data' = <<>>
    /\ selected_categories' = {}
    /\ filtered_stats' = <<>>
    /\ x_axis' = "none"
    /\ y_axis' = "none"
    /\ color' = "none"
    /\ size' = "none"
    /\ on_time_delivery' = Unset
    /\ UNCHANGED csv

Next ==
    \/ load_data
    \/ PrepareMonthly
    \/ PrepareCategory
    \/ PrepareRfm
    \/ PrepareDelivery
    \/ Metrics
    \/ RenderOverview
    \/ pc = "render" /\ \E range \in DateRanges(monthly_data) : RenderSales(range)
    \/ \E selected \in SUBSET Categories : RenderCategory(selected)
    \/ \E x, y \in Dimensions : RenderCustomer(x, y)
    \/ RenderInsights
    \/ Rerun

Spec == Init /\ [][Next]_vars

TypeOK ==
    /\ pc \in {"load_data", "prepare_monthly_data", "prepare_category_data",
               "prepare_rfm_data", "prepare_delivery_data", "metrics", "render",
               "done", "stopped"}
    /\ options \in Sections \cup {"none"}

\* ------------------------------------------------------------- properties
\* how far the current run has got: the number of statement groups completed
StageOf == [load_data |-> 0, prepare_monthly_data |-> 1, prepare_category_data |-> 2,
            prepare_rfm_data |-> 3, prepare_delivery_data |-> 4, metrics |-> 5,
            render |-> 6, done |-> 7]
Stage ==
    IF pc = "stopped"
    THEN (IF exception = "ZeroDivisionError" THEN StageOf["metrics"] ELSE StageOf["load_data"])
    ELSE StageOf[pc]
MonthlyReady == Stage >= StageOf["prepare_category_data"]
CategoryReady == Stage >= StageOf["prepare_rfm_data"]
RfmReady == Stage >= StageOf["prepare_delivery_data"]
DeliveryReady == Stage >= StageOf["metrics"]
MetricsReady == Stage >= StageOf["render"]

Lines == 1..Len(all_df)

\* C1: every row of monthly_data has order_count equal to the number of distinct
\* order_id values among the lines purchased in that row's calendar month; an
\* order with several lines in the month counts once.
OrdersPurchasedIn(m) ==
    {o \in OrderIds : \E i \in Lines :
        all_df[i].order_id = o /\ MonthOf(all_df[i].order_purchase_timestamp) = m}
C1_OrderCountIsDistinctOrders ==
    MonthlyReady =>
        \A k \in 1..Len(monthly_data) :
            monthly_data[k].order_count =
                Cardinality(OrdersPurchasedIn(MonthOfDate(monthly_data[k].order_date)))

\* a month that holds two lines of one order, counted as one order
C1_Witness ==
    /\ MonthlyReady
    /\ Len(all_df) = 2
    /\ all_df[1].order_id = all_df[2].order_id
    /\ MonthOf(all_df[1].order_purchase_timestamp) = MonthOf(all_df[2].order_purchase_timestamp)
    /\ all_df[1].order_purchase_timestamp # all_df[2].order_purchase_timestamp
    /\ Len(monthly_data) = 1
    /\ monthly_data[1].order_count = 1

\* C2: delivery_data has exactly one row for each order that has a line with a
\* delivery timestamp and no row for any other order, no row of it lacks the
\* delivery timestamp, and in every row delivery_difference is
\* estimated_delivery_time minus actual_delivery_time.
DeliveredOrders ==
    {o \in OrderIds : \E i \in Lines :
        all_df[i].order_id = o /\ all_df[i].order_delivered_customer_date # NaT}
C2_OneRowPerDeliveredOrder ==
    DeliveryReady =>
        /\ \A o \in OrderIds :
              Cardinality({k \in 1..Len(delivery_data) : delivery_data[k].order_id = o})
                  = IF o \in DeliveredOrders THEN 1 ELSE 0
        /\ \A k \in 1..Len(delivery_data) :
              /\ delivery_data[k].order_delivered_customer_date # NaT
              /\ delivery_data[k].delivery_difference =
                    delivery_data[k].estimated_delivery_time
                        - delivery_data[k].actual_delivery_time

\* an order with an undelivered line followed by a delivered line: one row
C2_Witness ==
    /\ DeliveryReady
    /\ Len(all_df) = 2
    /\ all_df[1].order_id = all_df[2].order_id
    /\ all_df[1].order_delivered_customer_date = NaT
    /\ all_df[2].order_delivered_customer_date # NaT
    /\ Len(delivery_data) = 1
    /\ delivery_data[1].delivery_difference < 0

\* C3 as stated: for every table, also one without any delivery timestamp, the
\* on-time rate (line 119, and line 424 in Additional Insights) is a number in
\* [0, 100] equal to 100 * (rows with delivery_difference >= 0) / (rows).
OnTimeRows == {k \in 1..Len(delivery_data) : delivery_data[k].delivery_difference >= 0}
IsPercentageOf(rate, k, n) ==
    /\ IsNumber(rate)
    /\ n > 0
    /\ rate.num * n = 100 * k * rate.den
    /\ 0 <= rate.num
    /\ rate.num <= 100 * rate.den
C3_RateAlwaysInRange ==
    /\ MetricsReady =>
          IsPercentageOf(on_time_delivery_rate, Cardinality(OnTimeRows), Len(delivery_data))
    /\ options = "Additional Insights" =>
          IsPercentageOf(on_time_delivery, Cardinality(OnTimeRows), Len(delivery_data))

\* C3 amended: with at least one delivery row the on-time rate is a number in
\* [0, 100] equal to 100 * (rows with delivery_difference >= 0) / (rows); with
\* no delivery row it is nan.
RateOrNan(rate) ==
    IF Len(delivery_data) > 0
    THEN IsPercentageOf(rate, Cardinality(OnTimeRows), Len(delivery_data))
    ELSE rate = NaN
C3_RateInRangeOrNan ==
    /\ MetricsReady => RateOrNan(on_time_delivery_rate)
    /\ options = "Additional Insights" => RateOrNan(on_time_delivery)

\* two delivered orders, one late and one exactly on the promised day: 50 %
C3_Witness ==
    /\ options = "Additional Insights"
    /\ Len(delivery_data) = 2
    /\ \E k \in 1..2 : delivery_data[k].delivery_difference = 0
    /\ \E k \in 1..2 : delivery_data[k].delivery_difference < 0
    /\ on_time_delivery = [num |-> 100, den |-> 2]
    /\ on_time_delivery_rate = [num |-> 100, den |-> 2]

\* C4: every row of rfm_data has recency >= 0, recency is the number of whole
\* days (rounded down) from the customer's latest purchase to the latest
\* purchase of the whole table, and every customer who owns a line with the
\* table's latest purchase timestamp has a row with recency 0.
LatestPurchase == SetMax({all_df[i].order_purchase_timestamp : i \in Lines})
LatestPurchaseOf(c) ==
    SetMax({all_df[i].order_purchase_timestamp : i \in {j \in Lines : all_df[j].customer_id = c}})
C4_RecencyNonNegative ==
    RfmReady =>
        /\ \A k \in 1..Len(rfm_data) :
              LET gap == LatestPurchase - LatestPurchaseOf(rfm_data[k].customer_id)
              IN  /\ rfm_data[k].recency >= 0
                  /\ rfm_data[k].recency * UnitsPerDay <= gap
                  /\ gap < (rfm_data[k].recency + 1) * UnitsPerDay
        /\ \A i \in Lines :
              all_df[i].order_purchase_timestamp = LatestPurchase =>
                  \E k \in 1..Len(rfm_data) :
                      /\ rfm_data[k].customer_id = all_df[i].customer_id
                      /\ rfm_data[k].recency = 0

\* two customers: the most recent buyer at 0, the other a day and a bit behind
C4_Witness ==
    /\ RfmReady
    /\ Len(rfm_data) = 2
    /\ \E k \in 1..2 : rfm_data[k].recency = 0
    /\ \E k \in 1..2 :
          /\ rfm_data[k].recency = 1
          /\ LatestPurchase - LatestPurchaseOf(rfm_data[k].customer_id) = UnitsPerDay + 1

\* C5 as stated: top_categories and bottom_categories carry the same
\* per-category price sums, top_categories in non-increasing order of sum,
\* bottom_categories in non-decreasing order, and the categories of
\* bottom_categories are those of top_categories read backwards.
CategoriesPresent == {all_df[i].product_category_name_english : i \in Lines}
RECURSIVE PriceSumOver(_, _)
PriceSumOver(cat, I) ==
    IF I = {} THEN 0
    ELSE LET i == CHOOSE x \in I : TRUE
         IN  (IF all_df[i].product_category_name_english = cat THEN all_df[i].price ELSE 0)
             + PriceSumOver(cat, I \ {i})
CarriesCategorySums(t) ==
    \A k \in 1..Len(t) :
        /\ t[k].product_category_name_english \in CategoriesPresent
        /\ t[k].price = PriceSumOver(t[k].product_category_name_english, Lines)
NonIncreasing(t) == \A i, j \in 1..Len(t) : i < j => t[i].price >= t[j].price
NonDecreasing(t) == \A i, j \in 1..Len(t) : i < j => t[i].price <= t[j].price
CategoryList(t) == [k \in 1..Len(t) |-> t[k].product_category_name_english]
Backwards(s) == [k \in 1..Len(s) |-> s[Len(s) + 1 - k]]
RankingsSorted ==
    /\ CarriesCategorySums(top_categories)
    /\ CarriesCategorySums(bottom_categories)
    /\ NonIncreasing(top_categories)
    /\ NonDecreasing(bottom_categories)
DistinctSums ==
    \A c, d \in CategoriesPresent :
        c # d => PriceSumOver(c, Lines) # PriceSumOver(d, Lines)
NoRepeat(s) == \A i, j \in 1..Len(s) : i # j => s[i] # s[j]
ZeroDataRows == csv.status # "ok" \/ csv.rows = <<>>
DataLoadError ==
    pc = "stopped" /\ exception \in {"FileNotFoundError", "OSError", "EmptyDataError"}
FailureBanner == exception # "none"
C6_NoRowsIsDataLoadError ==
    (ZeroDataRows /\ pc # "load_data") =>
        (DataLoadError /\ FailureBanner /\ options = "none")

\* C7: in Product Category Analysis an empty selection shows every row of the
\* category statistics (as many rows as there are categories), and a non-empty
\* selection shows exactly the rows whose category is selected.
SameCategoryRow(shown, full) ==
    /\ shown.product_category_name_english = full.product_category_name_english
    /\ shown.order_count = full.order_count
    /\ shown.item_count = full.item_count
    /\ shown.min_price = full.min_price
    /\ shown.max_price = full.max_price
ShownRowOf(k) ==
    {j \in 1..Len(filtered_stats) : SameCategoryRow(filtered_stats[j], category_stats[k])}
C7_CategorySelection ==
    options = "Product Category Analysis" =>
        /\ NoRepeat(CategoryList(filtered_stats))
        /\ \A j \in 1..Len(filtered_stats) :
              \E k \in 1..Len(category_stats) : j \in ShownRowOf(k)
        /\ \A k \in 1..Len(category_stats) :
              (ShownRowOf(k) # {}) <=>
                  \/ selected_categories = {}
                  \/ category_stats[k].product_category_name_english \in selected_categories
        /\ selected_categories = {} =>
              Len(filtered_stats) = Cardinality(CategoriesPresent)

\* two categories in the table, one of them selected and shown alone
C7_Witness ==
    /\ options = "Product Category Analysis"
    /\ Len(category_stats) = 2
    /\ Cardinality(selected_categories) = 1
    /\ Len(filtered_stats) = 1
    /\ filtered_stats[1].product_category_name_english \in selected_categories

\* C8: in Sales & Revenue Trends a date range of exactly two dates shows
\* exactly the monthly rows whose order_date (the last day of the row's month)
\* lies in the inclusive window [start, end]; any other selection shows every
\* monthly row.
SameMonthRow(shown, full) ==
    /\ shown.order_date = full.order_date
    /\ shown.order_count = full.order_count
    /\ shown.revenue = full.revenue
ShownMonthOf(k) ==
    {j \in 1..Len(filtered_monthly_data) :
        SameMonthRow(filtered_monthly_data[j], monthly_data[k])}
C8_DateWindow ==
    options = "Sales & Revenue Trends" =>
        /\ \A i, j \in 1..Len(filtered_monthly_data) :
              i < j => filtered_monthly_data[i].order_date < filtered_monthly_data[j].order_date
        /\ \A j \in 1..Len(filtered_monthly_data) :
              \E k \in 1..Len(monthly_data) : j \in ShownMonthOf(k)
        /\ \A k \in 1..Len(monthly_data) :
              (ShownMonthOf(k) # {}) <=>
                  \/ Len(date_range) # 2
                  \/ /\ date_range[1] <= monthly_data[k].order_date
                     /\ monthly_data[k].order_date <= date_range[2]

\* three months, a window that starts after the first month's last day and
\* ends on the last month's last day: the first row is cut, the last is kept
C8_Witness ==
    /\ options = "Sales & Revenue Trends"
    /\ Len(monthly_data) = 3
    /\ Len(date_range) = 2
    /\ date_range[1] > monthly_data[1].order_date
    /\ date_range[2] = monthly_data[3].order_date
    /\ Len(filtered_monthly_data) = 2
    /\ filtered_monthly_data[2].order_date = date_range[2]

\* C9: for every X-axis and Y-axis of the RFM scatter plot, the color dimension
\* and the size dimension are neither the X-axis nor the Y-axis dimension.
C9_ColorAndSizeOffAxes ==
    options = "Customer Analysis" =>
        /\ color \notin {x_axis, y_axis}
        /\ size \notin {x_axis, y_axis}

\* C10: a ratio with a zero denominator is nan and the run goes on to render:
\* the overview average order value when there are no orders, the monthly
\* average order value of a month without orders.
MetricsAttempted == Stage >= StageOf["metrics"] /\ pc # "metrics"
C10_OverviewRatioIsNan ==
    (MetricsAttempted /\ total_orders = 0) =>
        (exception = "none" /\ avg_order_value = NaN)
C10_MonthlyRatioIsNan ==
    options = "Sales & Revenue Trends" =>
        /\ pc = "done"
        /\ exception = "none"
        /\ \A j \in 1..Len(filtered_monthly_data) :
              filtered_monthly_data[j].order_count = 0 =>
                  filtered_monthly_data[j].avg_order_value = NaN
C10_MonthWithoutOrdersShown ==
    /\ options = "Sales & Revenue Trends"
    /\ \E j \in 1..Len(filtered_monthly_data) : filtered_monthly_data[j].order_count = 0
C10_ZeroDenominatorIsNan ==
    C10_OverviewRatioIsNan /\ C10_MonthlyRatioIsNan

\* C11: a render, whatever the section and the filter selections, leaves the
\* loaded table and the derived tables monthly_data, category_stats, rfm_data
\* and delivery_data (and the two category rankings) with the rows and columns
\* they had when they were computed.
C11_RenderKeepsTables ==
    [][pc = "render" => dataVars' = dataVars]_vars

\* what a render does leave alone: every table but monthly_data, and
\* monthly_data too unless the section is Sales & Revenue Trends with a date
\* range that is not two dates
C11_OtherTablesKept ==
    [][pc = "render" =>
          /\ <<all_df, top_categories, bottom_categories, category_stats,
               rfm_data, delivery_data>>'
               = <<all_df, top_categories, bottom_categories, category_stats,
                   rfm_data, delivery_data>>
          /\ (options' # "Sales & Revenue Trends" \/ Len(date_range') = 2) =>
                monthly_data' = monthly_data]_vars

=============================================================================
